---- MODULE Spec2Model ----
(***************************************************************************)
(* GAMO-R: simulated annealing (SA) and (1+1)-ES on the generalized        *)
(* integer One-Max problem (onemax.cc, SAonemax.cc, locality.cc).           *)
(*                                                                         *)
(* Seven specifications share the variables below.                         *)
(*   Spec       the driver of main(): `experiments' Sim objects advanced by *)
(*              the parallel_for body, one generation after the other, the *)
(*              bodies of different trials interleaved statement by        *)
(*              statement.                                                 *)
(*   SpecSim    one Sim object on which the run's generation step          *)
(*              (SA_generation or ES_generation) is called MaxSteps times.  *)
(*   SpecForced one SA Sim whose acceptance draw is always 0.               *)
(*   SpecLive   Spec started with the target at maxfit, every enabled step *)
(*              eventually taken.                                          *)
(*   SpecES     one ES Sim stepped without a step limit, with fairness on  *)
(*              the mutation that reaches the optimum.                     *)
(*   SpecCfg    main from the construction of sims on, with configurations *)
(*              the command line and the source allow but the run cannot   *)
(*              serve: no organism, no trial, no bit, a target above       *)
(*              maxfit, a lookup table that is not a permutation.          *)
(*   SpecFun    the pure functions (onemax, std_binary_rep, brg_rep and    *)
(*              locality.cc's is_representation, Sim::SA_accept), each      *)
(*              applied once.                                              *)
(* Numbers: fitness values are integers (onemax is integral), the          *)
(* temperature is an exact reduced fraction <<num, den>>, and the uniform   *)
(* draws and exp() are fixed-point numbers in units of 1/ExpScale.          *)
(***************************************************************************)
EXTENDS Integers, Sequences, FiniteSets

VARIABLES
  len,          \* main: len, the number of bits per organism (Sim: bit_dist_)
  a,            \* main: a, the value to maximize to
  popsize,      \* main: popsize, organisms per Sim (Sim: org_dist_)
  generations,  \* main: generations
  experiments,  \* main: experiments, the number of Sim objects
  algo,         \* which generation step the loop body calls: "SA" or "ES"
  rep,          \* which representation the fitness function closes over
  genotype_,    \* sims[i].genotype_: a sequence of organisms (bit sequences)
  temp_,        \* sims[i].temp_, a reduced fraction <<num, den>>
  eng_,         \* sims[i].eng_: the number of draws taken from the engine
  randdev,      \* the global std::random_device: the number of calls made
  gens,         \* main: gens[i]
  g,            \* main: the generation loop's index
  opt_count,    \* main: std::atomic<unsigned> opt_count
  sum_fitness,  \* main: std::atomic<uint64_t> sum_fitness
  pc,           \* pc[i]: the statement trial i's loop body is at
  mainpc,       \* main's position
  out,          \* the lines written to std::cout: <<g, opt_count, sum_fitness>>
  report,       \* the final line on std::cerr: <<sum, count>> of `completed'
  last,         \* SpecSim: the locals of the latest generation step
  nsteps,       \* history: the number of generation steps run on sims[i]
  seen,         \* history: the generations at which trial i was read as optimal
  pre,          \* history: <<num_optimal, fitness>> of sims[i] when its step began
  call          \* SpecFun: the function applied, its arguments and its result

vars == <<len, a, popsize, generations, experiments, algo, rep, genotype_, temp_,
          eng_, randdev, gens, g, opt_count, sum_fitness, pc, mainpc, out,
          report, last, nsteps, seen, pre, call>>

cfgvars == <<len, a, popsize, generations, experiments, algo, rep>>

-----------------------------------------------------------------------------
(* Bounds of the model *)

\* driver: the number of Sim objects (main: experiments, default 100000)
MaxExperiments == 2
\* driver: the generation budget (main: generations, default 2000)
MaxGenerations == 3
\* driver: the number of bits per organism (main: len is 5, or 3 in SAonemax.cc)
DriverLen == 2
\* the largest population size (main: popsize, default 1)
MaxPop == 2
\* driver: the largest number of organisms in all, experiments * popsize
MaxSlots == 2
\* SpecSim: the number of generation steps run on the Sim
MaxSteps == 3

(* Program constants *)

\* Sim::Sim default temp = 50
InitialTemp == 50
\* Sim::Sim default t_adjust = 0.995 = TAdjustNum / TAdjustDen
TAdjustNum == 995
TAdjustDen == 1000
\* SAonemax.cc main: len = 3
SimLen == 3
\* the unit of the fixed-point image of [0, 1]: a draw u stands for u / ExpScale
ExpScale == 10000
\* exp(-x) of a double is 0.0 for x >= 746 (the least positive double is
\* 2^-1074, about exp(-744.44))
ExpUnderflow == 746

-----------------------------------------------------------------------------
(* Arithmetic *)

Abs(x) == IF x < 0 THEN -x ELSE x

RECURSIVE Pow2(_)
Pow2(n) == IF n = 0 THEN 1 ELSE 2 * Pow2(n - 1)

RECURSIVE GCD(_, _)
GCD(x, y) == IF y = 0 THEN x ELSE GCD(y, x % y)

\* a fraction in lowest terms
Reduce(r) == LET d == GCD(r[1], r[2]) IN <<r[1] \div d, r[2] \div d>>

\* the product of two reduced fractions, cancelling across before multiplying
RatMul(x, y) ==
  LET d1 == GCD(x[1], y[2])
      d2 == GCD(y[1], x[2])
  IN  <<(x[1] \div d1) * (y[1] \div d2), (x[2] \div d2) * (y[2] \div d1)>>

RECURSIVE RatPow(_, _)
RatPow(x, n) == IF n = 0 THEN <<1, 1>> ELSE RatMul(x, RatPow(x, n - 1))

RECURSIVE Pow10(_)
Pow10(n) == IF n = 0 THEN 1 ELSE 10 * Pow10(n - 1)

\* floor(num / den * 10^digits), by long division
RECURSIVE Scaled(_, _, _)
Scaled(num, den, digits) ==
  IF digits = 0 THEN num \div den
  ELSE (num \div den) * Pow10(digits) + Scaled((num % den) * 10, den, digits - 1)

-----------------------------------------------------------------------------
(* Representations: bit sequence (genotype) -> integer (phenotype).         *)
(* A bit sequence is a sequence of 0/1, index 1 first (C++ index 0).        *)

BitStrings(n) == [1..n -> {0, 1}]

\* std_binary_rep: the loop runs from the last bit (weight 1) to the first
RECURSIVE std_binary_rep(_)
std_binary_rep(bits) ==
  IF Len(bits) = 0 THEN 0
  ELSE bits[Len(bits)] + 2 * std_binary_rep(SubSeq(bits, 1, Len(bits) - 1))

\* mutant of brg_rep: prev_bit is never toggled
RECURSIVE brg_rep_no_toggle(_)
brg_rep_no_toggle(bits) ==
  IF Len(bits) = 1 THEN bits[1]
  ELSE LET ret == brg_rep_no_toggle(SubSeq(bits, 1, Len(bits) - 1))
       IN  2 * ret + (ret % 2)

\* brg_rep: ret starts as the first bit; each further bit appends
\* prev_bit ^ 1 when it is set and prev_bit when it is not
RECURSIVE brg_rep(_)
brg_rep(bits) ==
  IF Len(bits) = 1 THEN bits[1]
  ELSE LET ret      == brg_rep(SubSeq(bits, 1, Len(bits) - 1))
           prev_bit == ret % 2
       IN  2 * ret + (IF bits[Len(bits)] = 1 THEN 1 - prev_bit ELSE prev_bit)

\* the example mappings for len = 3
one_maxima == <<5, 4, 1, 6, 7, 3, 0, 2>>
two_maxima == <<7, 2, 0, 5, 1, 6, 4, 3>>
three_maxima == <<0, 5, 4, 7, 1, 3, 6, 2>>
four_maxima == <<5, 7, 6, 4, 1, 3, 2, 0>>
different_four_maxima == <<3, 7, 0, 2, 1, 4, 5, 6>>

\* a mapping that is not a permutation: one_maxima with its last entry, 2,
\* replaced by a second 0
repeated_zero == <<5, 4, 1, 6, 7, 3, 0, 0>>

\* the mapping a lookup-table representation is built on
RepTable(r) ==
  CASE r = "one_maxima" -> one_maxima
    [] r = "two_maxima" -> two_maxima
    [] r = "three_maxima" -> three_maxima
    [] r = "four_maxima" -> four_maxima
    [] r = "different_four_maxima" -> different_four_maxima
    [] r = "repeated_zero" -> repeated_zero

\* the example mappings for len = 3
ExampleReps == {"one_maxima", "two_maxima", "three_maxima", "four_maxima",
                "different_four_maxima"}

TableReps == ExampleReps \cup {"repeated_zero"}

\* mutant of explicit_rep: the location is off by one
explicit_rep_off_by_one(bits, mapping) ==
  mapping[((std_binary_rep(bits) + 1) % Len(mapping)) + 1]

\* explicit_rep: mapping[loc], the mapping indexed from 0 in the source
explicit_rep(bits, mapping) == mapping[std_binary_rep(bits) + 1]

\* main: the lambda `rep', one of the alternatives main offers
Rep(r, bits) ==
  CASE r = "std" -> std_binary_rep(bits)
    [] r = "brg" -> brg_rep(bits)
    [] r \in TableReps -> explicit_rep(bits, RepTable(r))

\* std::iota(reference.begin(), reference.end(), 0) over n entries
iota(n) == [k \in 1..n |-> k - 1]

\* the number of entries of t equal to v
Count(t, v) == Cardinality({k \in 1..Len(t) : t[k] = v})

\* std::is_permutation(first1, last1, first2): every element of the first
\* range occurs as often in the second range (of the same length)
is_permutation(r1, r2) ==
  \A k \in 1..Len(r1) : Count(r1, r1[k]) = Count(r2, r1[k])

\* mutant of is_representation: every entry is looked up in the reference,
\* its multiplicity is not compared
is_representation_membership(t) ==
  \A k \in 1..Len(t) : Count(iota(Len(t)), t[k]) >= 1

\* locality.cc is_representation: rep is a permutation of 0..N-1
is_representation(t) == is_permutation(t, iota(Len(t)))

\* mutant of onemax: the abs left out
onemax_no_abs(target, r, bits) ==
  (Pow2(Len(bits)) - 1) - (Rep(r, bits) - target)

\* onemax: maxfit - |phenotype - a|, maxfit = (1 << bits.size()) - 1
onemax(target, r, bits) ==
  LET phenotype == Rep(r, bits)
      maxfit    == Pow2(Len(bits)) - 1
  IN  maxfit - Abs(phenotype - target)

\* main: maxfit = (1 << len) - 1
MaxFit(l) == Pow2(l) - 1

-----------------------------------------------------------------------------
(* Organism *)

\* Organism::fitness with main's closure fit = onemax(a, rep, bits)
OrgFitness(bits) == onemax(a, rep, bits)

\* mutant of flip: the bit is set, not toggled
flip_set(bits, idx) == [bits EXCEPT ![idx] = 1]

\* Organism::flip: bits_[idx] = bits_[idx] xor 1 (idx from 1 here)
flip(bits, idx) == [bits EXCEPT ![idx] = 1 - bits[idx]]

\* mutant of mutate_all: one draw, made before the loop, decides for all bits
mutate_all_one_draw(bits, draws) ==
  [i \in 1..Len(bits) |->
     IF draws[1] * Len(bits) < ExpScale THEN 1 - bits[i] ELSE bits[i]]

\* Organism::mutate_all: bit i is flipped when its draw is below p_m_ = 1 / len;
\* draws[i] / ExpScale is the i-th value of dist(reng)
mutate_all(bits, draws) ==
  [i \in 1..Len(bits) |->
     IF draws[i] * Len(bits) < ExpScale THEN 1 - bits[i] ELSE bits[i]]

\* the values a draw of prob_dist_ in [0, 1) is taken from: 0, 0.9, 0.9999
UDraws == {0, (9 * ExpScale) \div 10, ExpScale - 1}

\* the values a draw of mutate_all's dist in [0, 1) is taken from: 0, 0.9999
MDraws == {0, ExpScale - 1}

-----------------------------------------------------------------------------
(* Sim *)

\* exp(-x) for x = x4 / ExpScale >= 0, in units of 1 / ExpScale: the series
\* 1 - x + x^2/2 - x^3/6 up to x = 0.2, and exp(-x) = exp(-x/2)^2 above
RECURSIVE ExpNeg(_)
ExpNeg(x4) ==
  IF 5 * x4 <= ExpScale
  THEN LET sq == (x4 * x4) \div (2 * ExpScale)
       IN  ExpScale - x4 + sq - (sq * x4) \div (3 * ExpScale)
  ELSE LET h == ExpNeg(x4 \div 2) IN (h * h) \div ExpScale

\* exp((f1 - f0) / temp_) in units of 1 / ExpScale. A double exp(-x) is 0.0
\* from x = ExpUnderflow on (underflow); below that it is positive, and a
\* positive value under one unit is kept as one unit, so that the draw 0
\* is below it as it is in the code
Boltzmann(f0, f1, temp) ==
  LET milli == Scaled(temp[1], temp[2], 3)
      x4    == IF milli = 0 THEN 0 ELSE (Abs(f1 - f0) * 1000 * ExpScale) \div milli
      e     == ExpNeg(x4)
  IN  IF f1 = f0 THEN ExpScale
      ELSE IF milli = 0 THEN (IF f1 < f0 THEN 0 ELSE ExpScale * ExpScale)
      ELSE IF f1 < f0
           THEN (IF x4 >= ExpUnderflow * ExpScale THEN 0
                 ELSE IF e = 0 THEN 1 ELSE e)
      ELSE IF e = 0 THEN ExpScale * ExpScale
      ELSE (ExpScale * ExpScale) \div e

\* mutant of SA_accept: the comparison and the exponent's sign reversed
SA_accept_reversed(f0, f1, u, temp) == f1 < f0 \/ u < Boltzmann(f1, f0, temp)

\* mutant of SA_accept: the Boltzmann term left out
SA_accept_strict(f0, f1, u, temp) == f1 > f0

\* SA_generation: if (f1 > f0 || prob_dist_(eng_) < exp((f1 - f0) / temp_))
SA_accept(f0, f1, u, temp) == f1 > f0 \/ u < Boltzmann(f0, f1, temp)

\* mutant of ES_accept: the comparison reversed
ES_accept_reversed(f0, f1) == f1 < f0

\* mutant of ES_accept: ties accepted
ES_accept_ties(f0, f1) == f1 >= f0

\* ES_generation: if (f1 > f0)
ES_accept(f0, f1) == f1 > f0

\* temp_ *= tadj_
Cool(temp) == RatMul(temp, Reduce(<<TAdjustNum, TAdjustDen>>))

\* Sim::num_optimal: count_if(o.fitness() == optimum)
num_optimal(orgs, optimum) ==
  Cardinality({k \in 1..Len(orgs) : OrgFitness(orgs[k]) = optimum})

\* Sim::fitness: accumulate of o.fitness() over the organisms
RECURSIVE SimFitness(_)
SimFitness(orgs) ==
  IF Len(orgs) = 0 THEN 0
  ELSE SimFitness(SubSeq(orgs, 1, Len(orgs) - 1)) + OrgFitness(orgs[Len(orgs)])

-----------------------------------------------------------------------------
(* The generation steps of a Sim *)

Trials == 1..experiments

\* mutant of SA_generation: the temperature decays only when the candidate
\* is accepted
SA_generation_decay_on_accept(i, org, bit, u) ==
  LET inc    == genotype_[i][org]
      f0     == OrgFitness(inc)
      neworg == flip(inc, bit)
      f1     == OrgFitness(neworg)
      acc    == SA_accept(f0, f1, u, temp_[i])
  IN  /\ genotype_' = [genotype_ EXCEPT ![i][org] = IF acc THEN neworg ELSE @]
      /\ temp_' = [temp_ EXCEPT ![i] = IF acc THEN Cool(@) ELSE @]
      /\ eng_' = [eng_ EXCEPT ![i] = @ + (IF f1 > f0 THEN 2 ELSE 3)]
      /\ nsteps' = [nsteps EXCEPT ![i] = @ + 1]
      /\ UNCHANGED randdev

\* mutant of SA_generation: neworg is a reference to genotype_[org], not a
\* copy, so the flip stays whether or not the candidate is accepted
SA_generation_in_place(i, org, bit, u) ==
  LET inc    == genotype_[i][org]
      f0     == OrgFitness(inc)
      neworg == flip(inc, bit)
      f1     == OrgFitness(neworg)
  IN  /\ genotype_' = [genotype_ EXCEPT ![i][org] = neworg]
      /\ temp_' = [temp_ EXCEPT ![i] = Cool(@)]
      /\ eng_' = [eng_ EXCEPT ![i] = @ + (IF f1 > f0 THEN 2 ELSE 3)]
      /\ nsteps' = [nsteps EXCEPT ![i] = @ + 1]
      /\ UNCHANGED randdev

\* Sim::SA_generation on sims[i]: org and bit are the values of org_dist_(eng_)
\* and bit_dist_(eng_), u the value of prob_dist_(eng_), which is drawn only
\* when f1 > f0 is false (short-circuit ||)
SA_generation(i, org, bit, u) ==
  LET inc    == genotype_[i][org]
      f0     == OrgFitness(inc)
      neworg == flip(inc, bit)
      f1     == OrgFitness(neworg)
  IN  /\ genotype_' = [genotype_ EXCEPT ![i][org] =
                         IF SA_accept(f0, f1, u, temp_[i]) THEN neworg ELSE @]
      /\ temp_' = [temp_ EXCEPT ![i] = Cool(@)]
      /\ eng_' = [eng_ EXCEPT ![i] = @ + (IF f1 > f0 THEN 2 ELSE 3)]
      /\ nsteps' = [nsteps EXCEPT ![i] = @ + 1]
      /\ UNCHANGED randdev

\* Sim::ES_generation on sims[i]: org is the value of org_dist_(eng_), draws the
\* values of dist(reng) in mutate_all, whose engine is seeded by a call of randdev
ES_generation(i, org, draws) ==
  LET inc    == genotype_[i][org]
      f0     == OrgFitness(inc)
      neworg == mutate_all(inc, draws)
      f1     == OrgFitness(neworg)
  IN  /\ genotype_' = [genotype_ EXCEPT ![i][org] =
                         IF ES_accept(f0, f1) THEN neworg ELSE @]
      /\ eng_' = [eng_ EXCEPT ![i] = @ + 1]
      /\ randdev' = randdev + 1
      /\ nsteps' = [nsteps EXCEPT ![i] = @ + 1]
      /\ UNCHANGED temp_

-----------------------------------------------------------------------------
(* main: the parallel_for body of trial i, statement by statement *)

NoStep == [kind |-> "none"]

\* no function is being applied
NoCall == [fn |-> "none"]

\* the statements of the loop body, in program order
FirstStmt == "opt"

\* mutant of NextStmt: the generation step placed before the fitness read
NextStmt_advance_early(p) ==
  CASE p = "opt" -> "adv"
    [] p = "adv" -> "fit"
    [] p = "fit" -> "rec"
    [] p = "rec" -> "done"

NextStmt(p) ==
  CASE p = "opt" -> "fit"
    [] p = "fit" -> "rec"
    [] p = "rec" -> "adv"
    [] p = "adv" -> "done"

\* mutant of AtomicAdd: a store (=) in place of +=
AtomicAdd_store(old, v) == v

\* std::atomic operator+=: one indivisible read-modify-write
AtomicAdd(old, v) == old + v

\* mutant of RecordGens: the record written to the first trial's slot
RecordGens_slot0(gs, i, gen, fit, maxfit) ==
  IF fit = maxfit /\ gen < gs[i] THEN [gs EXCEPT ![1] = gen] ELSE gs

\* mutant of RecordGens: the test g < gens[i] left out
RecordGens_overwrite(gs, i, gen, fit, maxfit) ==
  IF fit = maxfit THEN [gs EXCEPT ![i] = gen] ELSE gs

\* if (sims[i].fitness() == maxfit && g < gens[i]) gens[i] = g;
RecordGens(gs, i, gen, fit, maxfit) ==
  IF fit = maxfit /\ gen < gs[i] THEN [gs EXCEPT ![i] = gen] ELSE gs

\* opt_count += sims[i].num_optimal(maxfit);
AddOptCount(i) ==
  /\ mainpc = "par" /\ pc[i] = "opt"
  /\ opt_count' = AtomicAdd(opt_count, num_optimal(genotype_[i], MaxFit(len)))
  /\ pc' = [pc EXCEPT ![i] = NextStmt(@)]
  /\ UNCHANGED <<cfgvars, call, genotype_, temp_, eng_, randdev, gens, g, sum_fitness,
                 mainpc, out, report, last, nsteps, seen, pre>>

\* sum_fitness += sims[i].fitness();
AddSumFitness(i) ==
  /\ mainpc = "par" /\ pc[i] = "fit"
  /\ sum_fitness' = AtomicAdd(sum_fitness, SimFitness(genotype_[i]))
  /\ pc' = [pc EXCEPT ![i] = NextStmt(@)]
  /\ UNCHANGED <<cfgvars, call, genotype_, temp_, eng_, randdev, gens, g, opt_count,
                 mainpc, out, report, last, nsteps, seen, pre>>

\* the if statement that records the first generation at the optimum
RecordGen(i) ==
  /\ mainpc = "par" /\ pc[i] = "rec"
  /\ gens' = RecordGens(gens, i, g, SimFitness(genotype_[i]), MaxFit(len))
  /\ seen' = [seen EXCEPT ![i] =
                IF num_optimal(genotype_[i], MaxFit(len)) >= 1 THEN @ \cup {g} ELSE @]
  /\ pc' = [pc EXCEPT ![i] = NextStmt(@)]
  /\ UNCHANGED <<cfgvars, call, genotype_, temp_, eng_, randdev, g, opt_count,
                 sum_fitness, mainpc, out, report, last, nsteps, pre>>

\* sims[i].SA_generation();
AdvanceSA(i) ==
  /\ mainpc = "par" /\ pc[i] = "adv" /\ algo = "SA"
  /\ \E org \in 1..popsize, bit \in 1..len, u \in UDraws :
       SA_generation(i, org, bit, u)
  /\ pre' = [pre EXCEPT ![i] = <<num_optimal(genotype_[i], MaxFit(len)),
                                   SimFitness(genotype_[i])>>]
  /\ pc' = [pc EXCEPT ![i] = NextStmt(@)]
  /\ UNCHANGED <<cfgvars, call, gens, g, opt_count, sum_fitness, mainpc, out, report,
                 last, seen>>

\* sims[i].ES_generation();
AdvanceES(i) ==
  /\ mainpc = "par" /\ pc[i] = "adv" /\ algo = "ES"
  /\ \E org \in 1..popsize, draws \in [1..len -> MDraws] :
       ES_generation(i, org, draws)
  /\ pre' = [pre EXCEPT ![i] = <<num_optimal(genotype_[i], MaxFit(len)),
                                   SimFitness(genotype_[i])>>]
  /\ pc' = [pc EXCEPT ![i] = NextStmt(@)]
  /\ UNCHANGED <<cfgvars, call, gens, g, opt_count, sum_fitness, mainpc, out, report,
                 last, seen>>

\* mutant of Emit: the line is written without waiting for the parallel_for
\* to return
Emit_no_barrier ==
  /\ mainpc = "par"
  /\ out' = Append(out, <<g, opt_count, sum_fitness>>)
  /\ g' = g + 1
  /\ IF g + 1 <= generations
     THEN /\ opt_count' = 0
          /\ sum_fitness' = 0
          /\ pc' = [i \in Trials |-> FirstStmt]
          /\ pre' = [i \in Trials |-> <<0, 0>>]
          /\ UNCHANGED mainpc
     ELSE /\ mainpc' = "report"
          /\ UNCHANGED <<opt_count, sum_fitness, pc, pre>>
  /\ UNCHANGED <<cfgvars, call, genotype_, temp_, eng_, randdev, gens, report,
                 last, nsteps, seen>>

\* the parallel_for has returned: main writes the generation's line and goes
\* round the loop (fresh atomics) or leaves it
Emit ==
  /\ mainpc = "par" /\ \A i \in Trials : pc[i] = "done"
  /\ out' = Append(out, <<g, opt_count, sum_fitness>>)
  /\ g' = g + 1
  /\ IF g + 1 <= generations
     THEN /\ opt_count' = 0
          /\ sum_fitness' = 0
          /\ pc' = [i \in Trials |-> FirstStmt]
          /\ pre' = [i \in Trials |-> <<0, 0>>]
          /\ UNCHANGED mainpc
     ELSE /\ mainpc' = "report"
          /\ UNCHANGED <<opt_count, sum_fitness, pc, pre>>
  /\ UNCHANGED <<cfgvars, call, genotype_, temp_, eng_, randdev, gens, report, last,
                 nsteps, seen>>

\* copy_if(g < generations) into `completed'
Completed(gs, budget) == {i \in DOMAIN gs : gs[i] < budget}

RECURSIVE SumOver(_, _)
SumOver(f, S) ==
  IF S = {} THEN 0
  ELSE LET x == CHOOSE y \in S : TRUE IN f[x] + SumOver(f, S \ {x})

\* the mean generation to the optimal solution: accumulate(completed) over
\* completed.size(), kept as the pair <<sum, count>>
Report ==
  /\ mainpc = "report"
  /\ report' = <<SumOver(gens, Completed(gens, generations)),
                 Cardinality(Completed(gens, generations))>>
  /\ mainpc' = "done"
  /\ UNCHANGED <<cfgvars, call, genotype_, temp_, eng_, randdev, gens, g, opt_count,
                 sum_fitness, pc, out, last, nsteps, seen, pre>>

\* the values of a the driver is run with
Targets(l) == 0..MaxFit(l)

\* the state when main reaches its generation loop
Init ==
  /\ len = DriverLen
  /\ a \in Targets(len)
  /\ popsize \in 1..MaxPop
  /\ generations = MaxGenerations
  /\ experiments \in {e \in 1..MaxExperiments : e * popsize <= MaxSlots}
  /\ algo \in {"SA", "ES"}
  /\ rep = "std"
  /\ genotype_ \in [1..experiments -> [1..popsize -> BitStrings(len)]]
  /\ temp_ = [i \in 1..experiments |-> <<InitialTemp, 1>>]
  /\ eng_ = [i \in 1..experiments |-> 0]
  /\ randdev = experiments * (1 + popsize)
  /\ gens = [i \in 1..experiments |-> generations]
  /\ g = 1
  /\ opt_count = 0
  /\ sum_fitness = 0
  /\ pc = [i \in 1..experiments |-> FirstStmt]
  /\ mainpc = "par"
  /\ out = <<>>
  /\ report = <<>>
  /\ last = NoStep
  /\ nsteps = [i \in 1..experiments |-> 0]
  /\ seen = [i \in 1..experiments |-> {}]
  /\ pre = [i \in 1..experiments |-> <<0, 0>>]
  /\ call = NoCall

Next ==
  \/ \E i \in Trials : AddOptCount(i)
  \/ \E i \in Trials : AddSumFitness(i)
  \/ \E i \in Trials : RecordGen(i)
  \/ \E i \in Trials : AdvanceSA(i)
  \/ \E i \in Trials : AdvanceES(i)
  \/ Emit
  \/ Report

Spec == Init /\ [][Next]_vars

\* the driver run with main's default target, a = (1 << len) - 1
InitLive == Init /\ a = MaxFit(len)

\* parallel_for runs every body to its end and returns, and main runs on:
\* a step that can be taken is taken
SpecLive == InitLive /\ [][Next]_vars /\ WF_vars(Next)

-----------------------------------------------------------------------------
(* SpecSim: one Sim object, sims[1], stepped MaxSteps times *)

\* the locals of a generation step: the organism and bit selected, the
\* incumbent (genotype_[org] before the step), the candidate neworg after its
\* mutation, their fitness, temp_ before the step, and the value of the if
\* condition (acc)
StepLocals(kind, org, bit, inc, neworg, temp, acc) ==
  [kind |-> kind, org |-> org, bit |-> bit, inc |-> inc, neworg |-> neworg,
   f0 |-> OrgFitness(inc), f1 |-> OrgFitness(neworg), temp |-> temp,
   acc |-> acc]

SimSA ==
  /\ mainpc = "sim" /\ algo = "SA" /\ nsteps[1] < MaxSteps
  /\ \E org \in 1..popsize, bit \in 1..len, u \in UDraws :
       /\ SA_generation(1, org, bit, u)
       /\ last' = StepLocals("SA", org, bit, genotype_[1][org],
                             flip(genotype_[1][org], bit), temp_[1],
                             SA_accept(OrgFitness(genotype_[1][org]),
                                       OrgFitness(flip(genotype_[1][org], bit)),
                                       u, temp_[1]))
  /\ UNCHANGED <<cfgvars, call, gens, g, opt_count, sum_fitness, pc, mainpc, out,
                 report, seen, pre>>

SimES ==
  /\ mainpc = "sim" /\ algo = "ES" /\ nsteps[1] < MaxSteps
  /\ \E org \in 1..popsize, draws \in [1..len -> MDraws] :
       /\ ES_generation(1, org, draws)
       /\ last' = StepLocals("ES", org, 0, genotype_[1][org],
                             mutate_all(genotype_[1][org], draws), temp_[1],
                             ES_accept(OrgFitness(genotype_[1][org]),
                                       OrgFitness(mutate_all(genotype_[1][org],
                                                             draws))))
  /\ UNCHANGED <<cfgvars, call, gens, g, opt_count, sum_fitness, pc, mainpc, out,
                 report, seen, pre>>

\* the representations SpecSim runs with
SimReps == {"std", "four_maxima"}

\* the state after Sim(popsize, len, fit, 1. / len) has been constructed
InitSim ==
  /\ len = SimLen
  /\ a \in Targets(len)
  /\ popsize \in 1..MaxPop
  /\ generations = MaxSteps
  /\ experiments = 1
  /\ algo \in {"SA", "ES"}
  /\ rep \in SimReps
  /\ genotype_ \in [1..experiments -> [1..popsize -> BitStrings(len)]]
  /\ temp_ = [i \in 1..experiments |-> <<InitialTemp, 1>>]
  /\ eng_ = [i \in 1..experiments |-> 0]
  /\ randdev = experiments * (1 + popsize)
  /\ gens = [i \in 1..experiments |-> generations]
  /\ g = 1
  /\ opt_count = 0
  /\ sum_fitness = 0
  /\ pc = [i \in 1..experiments |-> FirstStmt]
  /\ mainpc = "sim"
  /\ out = <<>>
  /\ report = <<>>
  /\ last = NoStep
  /\ nsteps = [i \in 1..experiments |-> 0]
  /\ seen = [i \in 1..experiments |-> {}]
  /\ pre = [i \in 1..experiments |-> <<0, 0>>]
  /\ call = NoCall

NextSim == SimSA \/ SimES

SpecSim == InitSim /\ [][NextSim]_vars

-----------------------------------------------------------------------------
(* SpecForced: one SA Sim of one organism, len 3, std_binary_rep, a = 7,     *)
(* whose acceptance draw is always the one that passes the Boltzmann test    *)

\* the value of prob_dist_(eng_) below exp(x) for every x: 0
ForcedDraw == 0

SimSAForced ==
  /\ mainpc = "sim" /\ nsteps[1] < MaxSteps
  /\ \E org \in 1..popsize, bit \in 1..len :
       /\ SA_generation(1, org, bit, ForcedDraw)
       /\ last' = StepLocals("SA", org, bit, genotype_[1][org],
                             flip(genotype_[1][org], bit), temp_[1],
                             SA_accept(OrgFitness(genotype_[1][org]),
                                       OrgFitness(flip(genotype_[1][org], bit)),
                                       ForcedDraw, temp_[1]))
  /\ UNCHANGED <<cfgvars, call, gens, g, opt_count, sum_fitness, pc, mainpc, out,
                 report, seen, pre>>

InitForced ==
  /\ InitSim
  /\ popsize = 1 /\ a = MaxFit(len) /\ algo = "SA" /\ rep = "std"

SpecForced == InitForced /\ [][SimSAForced]_vars

-----------------------------------------------------------------------------
(* SpecES: one ES Sim stepped without end. The counters of draws are kept     *)
(* modulo EngPeriod and the count of steps stops at MaxSteps, so that the    *)
(* states are finitely many.                                                 *)

\* SpecES: the modulus of the draw counters eng_ and randdev
EngPeriod == 2

\* Sim::ES_generation on sims[1] with org and draws as in ES_generation
SimESLive(org, draws) ==
  /\ mainpc = "sim" /\ algo = "ES"
  /\ LET inc    == genotype_[1][org]
         f0     == OrgFitness(inc)
         neworg == mutate_all(inc, draws)
         f1     == OrgFitness(neworg)
     IN  genotype_' = [genotype_ EXCEPT ![1][org] =
                         IF ES_accept(f0, f1) THEN neworg ELSE @]
  /\ eng_' = [eng_ EXCEPT ![1] = (@ + 1) % EngPeriod]
  /\ randdev' = (randdev + 1) % EngPeriod
  /\ nsteps' = [nsteps EXCEPT ![1] = IF @ < MaxSteps THEN @ + 1 ELSE @]
  /\ UNCHANGED <<cfgvars, call, temp_, gens, g, opt_count, sum_fitness, pc,
                 mainpc, out, report, last, seen, pre>>

\* the ES step that selects org and whose draws turn it into an organism of
\* optimal fitness
JumpToOptimum(org) ==
  /\ org \in 1..popsize
  /\ OrgFitness(genotype_[1][org]) < MaxFit(len)
  /\ \E draws \in [1..len -> MDraws] :
       /\ SimESLive(org, draws)
       /\ OrgFitness(genotype_'[1][org]) = MaxFit(len)

\* the targets SpecES runs with: the least, main's default (1 << len) - 1,
\* and the 4 the example mappings are made for
ESTargets == {0, 4, MaxFit(SimLen)}

InitES == InitSim /\ algo = "ES" /\ a \in ESTargets

NextES == \E org \in 1..popsize, draws \in [1..len -> MDraws] : SimESLive(org, draws)

\* every step draws org and the bits' draws afresh, each combination with
\* positive probability: a combination that stays possible is drawn in the end
SpecES ==
  InitES /\ [][NextES]_vars /\ \A org \in 1..MaxPop : WF_vars(JumpToOptimum(org))

-----------------------------------------------------------------------------
(* SpecCfg: main from the construction of sims on, run with configurations  *)
(* that include an empty population, no trial, a zero len, a target above   *)
(* maxfit and a lookup table with a repeated entry                          *)

\* SpecCfg: the generation budget
CfgGenerations == 2

\* onemax: assert(double(a) <= maxfit)
onemax_assert(target, bits) == target <= Pow2(Len(bits)) - 1

\* a fitness call on sims[i] fails onemax's assertion; every statement of the
\* loop body calls the fitness of every organism of sims[i]
FitnessAborts(i) ==
  \E k \in 1..Len(genotype_[i]) : ~onemax_assert(a, genotype_[i][k])

\* main: gens(experiments, generations); assert(len > 0); then the loop that
\* constructs the Sims. Sim::Sim checks neither units nor len: with units = 0
\* org_dist_ is built over [0, size_t(-1)] and genotype_ stays empty
Construct ==
  /\ mainpc = "construct"
  /\ gens' = [i \in 1..experiments |-> generations]
  /\ IF len > 0
     THEN /\ genotype_' \in [1..experiments -> [1..popsize -> BitStrings(len)]]
          /\ temp_' = [i \in 1..experiments |-> <<InitialTemp, 1>>]
          /\ eng_' = [i \in 1..experiments |-> 0]
          /\ randdev' = experiments * (1 + popsize)
          /\ pc' = [i \in 1..experiments |-> FirstStmt]
          /\ nsteps' = [i \in 1..experiments |-> 0]
          /\ seen' = [i \in 1..experiments |-> {}]
          /\ pre' = [i \in 1..experiments |-> <<0, 0>>]
          /\ mainpc' = "par"
     ELSE /\ mainpc' = "aborted"
          /\ UNCHANGED <<genotype_, temp_, eng_, randdev, pc, nsteps, seen, pre>>
  /\ UNCHANGED <<cfgvars, call, g, opt_count, sum_fitness, out, report, last>>

\* a statement of trial i's loop body calls onemax with a > maxfit: abort()
AssertFail(i) ==
  /\ mainpc = "par" /\ pc[i] \in {"opt", "fit", "rec", "adv"}
  /\ FitnessAborts(i)
  /\ mainpc' = "aborted"
  /\ UNCHANGED <<cfgvars, call, genotype_, temp_, eng_, randdev, gens, g,
                 opt_count, sum_fitness, pc, out, report, last, nsteps, seen, pre>>

\* the generation step of a Sim whose genotype_ is empty: genotype_[org] with
\* org drawn from [0, size_t(-1)] is out of bounds, which is undefined: the
\* step either ends the process or returns, its write landing outside every
\* Sim's organisms
AdvanceUB(i) ==
  /\ mainpc = "par" /\ pc[i] = "adv" /\ Len(genotype_[i]) = 0
  /\ nsteps' = [nsteps EXCEPT ![i] = @ + 1]
  /\ eng_' = [eng_ EXCEPT ![i] = @ + (IF algo = "SA" THEN 2 ELSE 1)]
  /\ \E outcome \in {"crash", "return"} :
       IF outcome = "crash"
       THEN /\ mainpc' = "crashed"
            /\ UNCHANGED <<temp_, randdev, pc>>
       ELSE /\ temp_' = [temp_ EXCEPT ![i] = IF algo = "SA" THEN Cool(@) ELSE @]
            /\ randdev' = IF algo = "ES" THEN randdev + 1 ELSE randdev
            /\ pc' = [pc EXCEPT ![i] = NextStmt(@)]
            /\ UNCHANGED mainpc
  /\ UNCHANGED <<cfgvars, call, genotype_, gens, g, opt_count, sum_fitness, out,
                 report, last, seen, pre>>

\* main's variables before sims is constructed
InitCfg ==
  /\ \/ /\ len \in {0, DriverLen}
        /\ a \in {MaxFit(len), MaxFit(len) + 1}
        /\ popsize \in {0, 1}
        /\ experiments \in 0..MaxExperiments
        /\ rep = "std"
     \/ /\ len = SimLen
        /\ a \in {0, MaxFit(len)}
        /\ popsize = 1
        /\ experiments = 1
        /\ rep = "repeated_zero"
  /\ generations = CfgGenerations
  /\ algo \in {"SA", "ES"}
  /\ genotype_ = <<>>
  /\ temp_ = <<>>
  /\ eng_ = <<>>
  /\ randdev = 0
  /\ gens = <<>>
  /\ g = 1
  /\ opt_count = 0
  /\ sum_fitness = 0
  /\ pc = <<>>
  /\ mainpc = "construct"
  /\ out = <<>>
  /\ report = <<>>
  /\ last = NoStep
  /\ nsteps = <<>>
  /\ seen = <<>>
  /\ pre = <<>>
  /\ call = NoCall

NextCfg ==
  \/ Construct
  \/ \E i \in DOMAIN genotype_ : AssertFail(i)
  \/ \E i \in DOMAIN genotype_ : ~FitnessAborts(i) /\ AddOptCount(i)
  \/ \E i \in DOMAIN genotype_ : ~FitnessAborts(i) /\ AddSumFitness(i)
  \/ \E i \in DOMAIN genotype_ : ~FitnessAborts(i) /\ RecordGen(i)
  \/ \E i \in DOMAIN genotype_ : ~FitnessAborts(i) /\ AdvanceSA(i)
  \/ \E i \in DOMAIN genotype_ : ~FitnessAborts(i) /\ AdvanceES(i)
  \/ \E i \in DOMAIN genotype_ : AdvanceUB(i)
  \/ Emit
  \/ Report

SpecCfg == InitCfg /\ [][NextCfg]_vars

-----------------------------------------------------------------------------
(* SpecFun: the pure functions, each applied once to an input drawn in Init *)

\* the longest bit vector onemax is applied to
MaxFunLen == 3

\* the lengths std_binary_rep and brg_rep are applied at: main's len in
\* SAonemax.cc and in onemax.cc
RepLens == {3, 5}

\* the representations main can close onemax over at length l
FunReps(l) == IF l = 3 THEN {"std", "brg"} \cup ExampleReps ELSE {"std", "brg"}

\* a call that has not returned yet
Pending(fn, bits, target, r, table) ==
  [fn |-> fn, done |-> FALSE, bits |-> bits, target |-> target, rep |-> r,
   table |-> table, val |-> 0, ok |-> FALSE]

OnemaxCalls ==
  UNION {{Pending("onemax", bits, target, r, <<>>) :
            bits \in BitStrings(l), target \in 0..MaxFit(l), r \in FunReps(l)} :
         l \in 1..MaxFunLen}

RepCalls ==
  UNION {{Pending(fn, bits, 0, fn, <<>>) :
            bits \in BitStrings(l), fn \in {"std_binary_rep", "brg_rep"}} :
         l \in RepLens}

\* the tables that differ from t in at most one entry, which is any of 0..N
OneOff(t) == {[t EXCEPT ![k] = v] : k \in 1..Len(t), v \in 0..Len(t)}

\* rep_t values: every table of N = 2 and N = 4 entries over 0..N, and for
\* N = 8 the example mappings with at most one entry replaced
FunTables ==
  [1..2 -> 0..2] \cup [1..4 -> 0..4] \cup OneOff(one_maxima)
    \cup OneOff(two_maxima) \cup OneOff(three_maxima) \cup OneOff(four_maxima)
    \cup OneOff(different_four_maxima)

TableCalls ==
  {Pending("is_representation", <<>>, 0, "none", t) : t \in FunTables}

\* values of temp_ in an SA run of 2000 generations (the default budget of
\* onemax.cc): 50 at the start, and 50 * 0.995^n rounded to 0.333 after
\* n = 1000 and to 0.002214 after n = 2000 generations
TempGrid == {<<InitialTemp, 1>>, <<333, 1000>>, <<2214, 1000000>>}

\* the if condition of SA_generation on the fitness values of len = 3
AcceptCalls ==
  {[fn |-> "SA_accept", done |-> FALSE, f0 |-> f0, f1 |-> f1, u |-> u,
    temp |-> temp, ok |-> FALSE] :
     f0 \in 0..MaxFit(SimLen), f1 \in 0..MaxFit(SimLen), u \in UDraws,
     temp \in TempGrid}

\* every variable but call
simvars == <<cfgvars, genotype_, temp_, eng_, randdev, gens, g, opt_count,
             sum_fitness, pc, mainpc, out, report, last, nsteps, seen, pre>>

Apply_onemax ==
  /\ mainpc = "fun" /\ call.fn = "onemax" /\ ~call.done
  /\ call' = [call EXCEPT !.done = TRUE,
                          !.val = onemax(call.target, call.rep, call.bits)]
  /\ UNCHANGED simvars

Apply_std_binary_rep ==
  /\ mainpc = "fun" /\ call.fn = "std_binary_rep" /\ ~call.done
  /\ call' = [call EXCEPT !.done = TRUE, !.val = std_binary_rep(call.bits)]
  /\ UNCHANGED simvars

Apply_brg_rep ==
  /\ mainpc = "fun" /\ call.fn = "brg_rep" /\ ~call.done
  /\ call' = [call EXCEPT !.done = TRUE, !.val = brg_rep(call.bits)]
  /\ UNCHANGED simvars

Apply_is_representation ==
  /\ mainpc = "fun" /\ call.fn = "is_representation" /\ ~call.done
  /\ call' = [call EXCEPT !.done = TRUE, !.ok = is_representation(call.table)]
  /\ UNCHANGED simvars

Apply_SA_accept ==
  /\ mainpc = "fun" /\ call.fn = "SA_accept" /\ ~call.done
  /\ call' = [call EXCEPT !.done = TRUE,
                          !.ok = SA_accept(call.f0, call.f1, call.u, call.temp)]
  /\ UNCHANGED simvars

\* no Sim is constructed; one call is pending
InitFun ==
  /\ len = 0
  /\ a = 0
  /\ popsize = 0
  /\ generations = 0
  /\ experiments = 0
  /\ algo = "SA"
  /\ rep = "std"
  /\ genotype_ = <<>>
  /\ temp_ = <<>>
  /\ eng_ = <<>>
  /\ randdev = 0
  /\ gens = <<>>
  /\ g = 1
  /\ opt_count = 0
  /\ sum_fitness = 0
  /\ pc = <<>>
  /\ mainpc = "fun"
  /\ out = <<>>
  /\ report = <<>>
  /\ last = NoStep
  /\ nsteps = <<>>
  /\ seen = <<>>
  /\ pre = <<>>
  /\ call \in OnemaxCalls \cup RepCalls \cup TableCalls \cup AcceptCalls

NextFun ==
  \/ Apply_onemax
  \/ Apply_std_binary_rep
  \/ Apply_brg_rep
  \/ Apply_is_representation
  \/ Apply_SA_accept

SpecFun == InitFun /\ [][NextFun]_vars

-----------------------------------------------------------------------------
(* Claims about the generation steps, checked under SpecSim *)

\* C1: after an SA generation whose candidate was strictly fitter than the
\* incumbent (f1 > f0), the selected organism is the candidate, whatever the
\* population, the organism and bit selected and the temperature were.
C1_ImprovementAccepted ==
  (last.kind = "SA" /\ last.f1 > last.f0) => genotype_[1][last.org] = last.neworg

C1_Witness ==
  /\ last.kind = "SA" /\ last.f1 > last.f0
  /\ genotype_[1][last.org] = last.neworg
  /\ nsteps[1] >= 2

C3_TemperatureSchedule ==
  algo = "SA" =>
    temp_[1] = RatMul(<<InitialTemp, 1>>,
                      RatPow(Reduce(<<TAdjustNum, TAdjustDen>>), nsteps[1]))

\* MaxSteps generations have run and the last candidate was rejected
C3_Witness ==
  /\ last.kind = "SA" /\ nsteps[1] = MaxSteps
  /\ genotype_[1][last.org] = last.inc
  /\ temp_[1] # <<InitialTemp, 1>>

-----------------------------------------------------------------------------
(* Claims about the driver, checked under Spec *)

\* C4: in generation g every statement of trial i's body that reads the trial
\* (num_optimal, fitness, the first-passage test) runs when the trial has been
\* advanced g - 1 times; the body advances it once, to g; line g is written
\* when every trial has been advanced g times, and after the run every trial
\* has been advanced `generations' times.
C4_ReadBeforeAdvanceOncePerGeneration ==
  /\ mainpc = "par" =>
       /\ Len(out) = g - 1
       /\ \A i \in Trials :
            /\ pc[i] \in {"opt", "fit", "rec", "adv"} => nsteps[i] = g - 1
            /\ pc[i] = "done" => nsteps[i] = g
  /\ mainpc \in {"report", "done"} =>
       /\ Len(out) = generations
       /\ \A i \in Trials : nsteps[i] = generations
  /\ \A k \in 1..Len(out) : out[k][1] = k

C4_Witness ==
  /\ mainpc = "done" /\ experiments = 2 /\ Len(out) = generations
  /\ \A i \in Trials : nsteps[i] = generations /\ genotype_[i] # genotype_[3 - i]

\* C5: once gens[i] holds a generation below the sentinel `generations', no
\* step changes it.
C5_FirstWriteWins ==
  [][\A i \in Trials : gens[i] < generations => gens'[i] = gens[i]]_vars

\* trial i was recorded at the optimum in generation 1, was away from it in
\* generation 2 and has passed the first-passage test at the optimum again in
\* generation 3
C5_Witness ==
  \E i \in Trials :
    /\ popsize = 1 /\ g = 3 /\ seen[i] = {1, 3} /\ gens[i] = 1
    /\ pc[i] \in {"adv", "done"}


\* the least element of a non-empty set of numbers
Least(S) == CHOOSE x \in S : \A y \in S : x <= y

\* the trials read at the optimum in some generation of the run
Reached == {i \in Trials : seen[i] # {}}

\* C6: after a run with population size 1, gens[i] is the first generation in
\* which trial i was read at the optimum, and gens[i] is the sentinel
\* `generations' only if it was read at the optimum in no generation.
C6_FirstPassageRecorded ==
  (mainpc \in {"report", "done"} /\ popsize = 1) =>
    \A i \in Trials :
      /\ seen[i] # {} => gens[i] = Least(seen[i])
      /\ gens[i] = generations => seen[i] = {}

\* C7: the final report is the sum and the number of the first-passage
\* generations of exactly the trials read at the optimum in some generation.
C7_MeanOverReachedTrials ==
  mainpc = "done" =>
    report = <<SumOver([i \in Trials |-> IF i \in Reached THEN Least(seen[i]) ELSE 0],
                       Reached),
               Cardinality(Reached)>>

\* C8: with a in [0, 2^len - 1], every value of the counters and every line
\* written has 0 <= opt_count <= experiments * popsize and
\* 0 <= sum_fitness <= maxfit * experiments * popsize.
C8_AggregateBounds ==
  /\ 0 <= opt_count /\ opt_count <= experiments * popsize
  /\ 0 <= sum_fitness /\ sum_fitness <= MaxFit(len) * experiments * popsize
  /\ \A k \in 1..Len(out) :
       /\ 0 <= out[k][2] /\ out[k][2] <= experiments * popsize
       /\ 0 <= out[k][3] /\ out[k][3] <= MaxFit(len) * experiments * popsize

\* a line with every organism of both trials at the optimum: both bounds met
C8_Witness ==
  /\ experiments = 2 /\ Len(out) >= 2
  /\ out[Len(out)][2] = experiments * popsize
  /\ out[Len(out)][3] = MaxFit(len) * experiments * popsize
  /\ out[1][2] = 0

\* C9: when every trial's body of a generation has finished, opt_count is the
\* sum of the trials' num_optimal and sum_fitness the sum of the trials'
\* fitness, each taken when the trial's generation step began.
C9_NoLostUpdate ==
  (mainpc = "par" /\ \A i \in Trials : pc[i] = "done") =>
    /\ opt_count = SumOver([i \in Trials |-> pre[i][1]], Trials)
    /\ sum_fitness = SumOver([i \in Trials |-> pre[i][2]], Trials)

\* both trials have finished a generation in which each contributed to both
\* counters and each was changed by its step
C9_Witness ==
  /\ mainpc = "par" /\ experiments = 2 /\ \A i \in Trials : pc[i] = "done"
  /\ \A i \in Trials : pre[i][1] >= 1 /\ pre[i][2] # SimFitness(genotype_[i])
  /\ opt_count = 2

-----------------------------------------------------------------------------
(* Claims about the random sources, checked under Spec *)

\* C11: the statement that advances a trial inside the parallel loop draws
\* only from random-number state owned by that trial (its eng_): it leaves the
\* random device shared by all trials untouched.
C11_DrawsFromOwnState ==
  [][\A i \in DOMAIN pc :
       (mainpc = "par" /\ pc[i] = "adv" /\ pc'[i] = "done")
         => randdev' = randdev]_vars

-----------------------------------------------------------------------------
(* Claims about the pure functions, checked under SpecFun *)

\* C12: for every length L, target in 0..2^L - 1 and bit vector, onemax
\* returns (2^L - 1) - |rep(bits) - target|; the value is 2^L - 1 exactly when
\* rep(bits) = target and strictly smaller otherwise.
C12_OnemaxValue ==
  (call.fn = "onemax" /\ call.done) =>
    LET top       == Pow2(Len(call.bits)) - 1
        phenotype == Rep(call.rep, call.bits)
        distance  == IF phenotype >= call.target THEN phenotype - call.target
                     ELSE call.target - phenotype
    IN  /\ call.val = top - distance
        /\ call.val = top <=> phenotype = call.target
        /\ phenotype # call.target => call.val < top

C12_Witness ==
  /\ call.fn = "onemax" /\ call.done
  /\ Len(call.bits) = MaxFunLen /\ call.rep = "brg"
  /\ Rep(call.rep, call.bits) < call.target
  /\ call.val = MaxFit(MaxFunLen) - 2

\* a table of N entries without an out-of-range and without a duplicate entry
IsPermutationTable(t) ==
  /\ \A k \in 1..Len(t) : t[k] \in 0..(Len(t) - 1)
  /\ \A j, k \in 1..Len(t) : j # k => t[j] # t[k]

\* C13: is_representation returns true exactly for the tables of N = 2^L
\* entries that are a permutation of 0..N-1 (no duplicate and no out-of-range
\* entry); {5,4,1,6,7,3,0,2} is accepted and {5,4,1,6,7,3,0,0} is rejected.
C13_AcceptsExactlyPermutations ==
  (call.fn = "is_representation" /\ call.done) =>
    /\ call.ok <=> IsPermutationTable(call.table)
    /\ call.table = <<5, 4, 1, 6, 7, 3, 0, 2>> => call.ok
    /\ call.table = <<5, 4, 1, 6, 7, 3, 0, 0>> => ~call.ok

C13_Witness ==
  /\ call.fn = "is_representation" /\ call.done
  /\ call.table = <<5, 4, 1, 6, 7, 3, 0, 0>>
  /\ ~call.ok

\* the value of bits read as a binary numeral, the first bit most significant
RECURSIVE BigEndian(_)
BigEndian(bits) ==
  IF Len(bits) = 0 THEN 0
  ELSE bits[1] * Pow2(Len(bits) - 1) + BigEndian(Tail(bits))

\* the representation function a call names
RepFn(fn, bits) ==
  IF fn = "std_binary_rep" THEN std_binary_rep(bits) ELSE brg_rep(bits)

\* C14: std_binary_rep and brg_rep are bijections from the bit vectors of
\* length L (3 and 5) onto 0..2^L - 1: every output is in range and no other
\* bit vector of the same length has the same output; std_binary_rep is the
\* big-endian value of the bits.
C14_RepsAreBijections ==
  (call.fn \in {"std_binary_rep", "brg_rep"} /\ call.done) =>
    /\ call.val \in 0..(Pow2(Len(call.bits)) - 1)
    /\ \A other \in BitStrings(Len(call.bits)) :
         other # call.bits => RepFn(call.fn, other) # call.val
    /\ call.fn = "std_binary_rep" => call.val = BigEndian(call.bits)

C14_Witness ==
  /\ call.fn = "brg_rep" /\ call.done
  /\ call.bits = <<1, 1, 0, 1, 0>>
  /\ call.val = 19

-----------------------------------------------------------------------------
(* Claims about misconfigured runs, checked under SpecCfg *)

\* C15: a lookup table that is not a permutation of 0..2^len - 1 is rejected
\* when the Sims are constructed: with such a table the run does not get past
\* the construction and no generation step is executed.
C15_NonPermutationRejected ==
  (rep \in TableReps /\ ~IsPermutationTable(RepTable(rep))) =>
    /\ mainpc \in {"construct", "aborted"}
    /\ \A i \in DOMAIN nsteps : nsteps[i] = 0

\* C16: constructing a Sim with a population size below 1 or a len below 1
\* fails: with such sizes the run does not get past the construction and no
\* generation step runs on an empty population or a zero-length organism.
C16_InvalidSizesRejected ==
  (experiments >= 1 /\ (popsize < 1 \/ len < 1)) =>
    /\ mainpc \in {"construct", "aborted"}
    /\ \A i \in DOMAIN nsteps : nsteps[i] = 0

\* C17: with a target above 2^len - 1 the run ends in onemax's assertion before
\* the first generation is over: no trial is advanced, no per-generation line
\* is written and the run does not reach its report.
C17_TargetAboveMaxAborts ==
  a > MaxFit(len) =>
    /\ \A i \in DOMAIN nsteps : nsteps[i] = 0
    /\ out = <<>>
    /\ mainpc \in {"construct", "par", "aborted"}

-----------------------------------------------------------------------------
(* Claims about the effect of one generation step *)

\* the number of positions in which two bit sequences of one length differ
Hamming(x, y) == Cardinality({k \in 1..Len(x) : x[k] # y[k]})

\* the number of bits in which two populations of one shape differ
PopDistance(p, q) ==
  Cardinality({ok \in (1..Len(p)) \X (1..len) : p[ok[1]][ok[2]] # q[ok[1]][ok[2]]})

C19_StepFrame ==
  [][nsteps'[1] # nsteps[1] =>
       /\ popsize' = popsize /\ Len(genotype_'[1]) = Len(genotype_[1])
       /\ last'.inc = genotype_[1][last'.org]
       /\ \A k \in 1..Len(genotype_[1]) :
            k # last'.org => genotype_'[1][k] = genotype_[1][k]
       /\ ~last'.acc => genotype_'[1][last'.org] = genotype_[1][last'.org]
       /\ last'.acc => genotype_'[1][last'.org] = last'.neworg
       /\ last'.kind = "ES" => temp_' = temp_]_vars

C19_Witness ==
  /\ last.kind = "SA" /\ ~last.acc /\ last.f1 < last.f0
  /\ popsize = 2 /\ Len(genotype_[1]) = 2
  /\ genotype_[1][last.org] = last.inc
  /\ nsteps[1] >= 2

\* C20: the SA candidate differs from the selected incumbent in exactly one
\* bit, so over one SA_generation the population changes in no bit
\* (rejection) or in exactly one bit of one organism (acceptance).
C20_OneBitPerStep ==
  [][(nsteps'[1] # nsteps[1] /\ last'.kind = "SA") =>
       /\ Hamming(last'.inc, last'.neworg) = 1
       /\ last'.inc = genotype_[1][last'.org]
       /\ PopDistance(genotype_[1], genotype_'[1]) = (IF last'.acc THEN 1 ELSE 0)]_vars

C20_Witness ==
  /\ last.kind = "SA" /\ last.acc /\ last.f1 < last.f0
  /\ popsize = 2
  /\ Hamming(last.inc, genotype_[1][last.org]) = 1
  /\ nsteps[1] >= 2

-----------------------------------------------------------------------------
(* Claims about the acceptance rules *)

\* C21 as stated: for f1 < f0 and any positive temperature some draw in
\* [0, 1) makes SA_generation accept the candidate; the draw 0 is below every
\* threshold any draw is below, so the draw 0 is accepted.
C21_WorseAcceptedAtAnyTemperature ==
  (call.fn = "SA_accept" /\ call.done /\ call.f1 < call.f0 /\ call.u = 0)
    => call.ok

\* C21 amended: for f1 < f0 the draw 0 is accepted while (f0 - f1) / temp_ is
\* below 745, where exp((f1 - f0) / temp_) is a positive double; from 746 on
\* the exp is 0.0 and no draw is accepted.
C21_WorseAcceptedAboveUnderflow ==
  (call.fn = "SA_accept" /\ call.done /\ call.f1 < call.f0) =>
    /\ (call.u = 0 /\ (call.f0 - call.f1) * call.temp[2] < 745 * call.temp[1])
         => call.ok
    /\ (call.f0 - call.f1) * call.temp[2] >= 746 * call.temp[1] => ~call.ok

C21_Witness ==
  /\ call.fn = "SA_accept" /\ call.done
  /\ call.f0 = MaxFit(SimLen) /\ call.f1 = call.f0 - 1 /\ call.u = 0
  /\ call.temp = <<2214, 1000000>>
  /\ call.ok

\* C24: a candidate as fit as the incumbent (f1 = f0) is accepted by
\* SA_generation for every draw in [0, 1) at every temperature of the run,
\* the threshold exp(0) being 1; with C1, every candidate with f1 >= f0 is
\* accepted.
C24_TiesAccepted ==
  (call.fn = "SA_accept" /\ call.done /\ call.f1 >= call.f0) =>
    /\ call.ok
    /\ call.f1 = call.f0 => Boltzmann(call.f0, call.f1, call.temp) = ExpScale
    /\ call.u < ExpScale

C24_Witness ==
  /\ call.fn = "SA_accept" /\ call.done
  /\ call.f1 = call.f0 /\ call.u = ExpScale - 1
  /\ call.temp = <<2214, 1000000>>
  /\ call.ok

-----------------------------------------------------------------------------
(* Claims about the run as a whole, checked under SpecLive *)

\* C22: a run with a valid configuration and budget `generations' terminates;
\* at its end it has written exactly `generations' lines and one report; the
\* lines carry the indices 1, 2, ... in order; a line is written only when
\* every trial's body of that generation has completed (the trial has run as
\* many steps as the line's index); the report, once written, is final.
C22_TerminatesWithGLines ==
  /\ <>(mainpc = "done")
  /\ [](mainpc = "done" => (Len(out) = generations /\ Len(report) = 2))
  /\ [](/\ \A k \in 1..Len(out) : out[k][1] = k
        /\ Len(out) <= generations
        /\ mainpc # "done" => report = <<>>)
  /\ [][out' # out =>
          /\ out' = Append(out, <<g, opt_count, sum_fitness>>)
          /\ \A i \in Trials : pc[i] = "done" /\ nsteps[i] = g]_vars
  /\ [][report # <<>> => (report' = report /\ out' = out)]_vars

C22_Witness ==
  /\ mainpc = "done" /\ experiments = 2
  /\ Len(out) = generations /\ out[generations][1] = generations
  /\ Len(report) = 2 /\ report[2] = 1

-----------------------------------------------------------------------------
(* Claims about the example mappings, checked under SpecFun *)

\* the bit strings none of whose single-bit-flip neighbours is strictly fitter
LocalMaxima(target, r, l) ==
  {b \in BitStrings(l) :
     \A k \in 1..l : onemax(target, r, flip(b, k)) <= onemax(target, r, b)}

\* the number of local maxima a mapping's name states
StatedMaxima(r) ==
  CASE r = "one_maxima" -> 1
    [] r = "two_maxima" -> 2
    [] r = "three_maxima" -> 3
    [] r = "four_maxima" -> 4
    [] r = "different_four_maxima" -> 4

\* C23: with len = 3, a = 4 and onemax, each example mapping has as many local
\* maxima (bit strings with no strictly fitter single-bit-flip neighbour) as
\* its name states: 1, 2, 3, 4 and 4; the bit string of the call is one of
\* them exactly when no neighbour's fitness exceeds the value returned.
C23_ExampleMaximaCounts ==
  (/\ call.fn = "onemax" /\ call.done
   /\ call.rep \in ExampleReps /\ call.target = 4) =>
    /\ Cardinality(LocalMaxima(call.target, call.rep, Len(call.bits)))
         = StatedMaxima(call.rep)
    /\ call.bits \in LocalMaxima(call.target, call.rep, Len(call.bits))
         <=> \A k \in 1..Len(call.bits) :
               onemax(call.target, call.rep, flip(call.bits, k)) <= call.val

C23_Witness ==
  /\ call.fn = "onemax" /\ call.done
  /\ call.rep = "three_maxima" /\ call.target = 4
  /\ call.bits \in LocalMaxima(call.target, call.rep, Len(call.bits))
  /\ call.val < MaxFit(Len(call.bits))

-----------------------------------------------------------------------------
(* Claims about ES runs, checked under Spec *)

-----------------------------------------------------------------------------
(* Claims about ES steps without end, checked under SpecES *)

-----------------------------------------------------------------------------
(* Claims about the first-passage record of a population, checked under Spec *)

\* C27: with two or more organisms per trial, gens[i] is written only at a
\* generation at which at least one organism of trial i has optimal fitness
\* (num_optimal >= 1).
C27_RecordedOnlyAtOptimum ==
  [][\A i \in DOMAIN gens :
       (popsize >= 2 /\ gens'[i] # gens[i])
         => num_optimal(genotype_[i], MaxFit(len)) >= 1]_vars

====
